---------------------------- MODULE Spec2Model ----------------------------
(***************************************************************************)
(* Scuba transfer whip pressure calculator (scuba-whip-calculator-go).     *)
(*                                                                         *)
(* The program equalizes gas between source and destination cylinders.    *)
(* The model follows the latest revision of the program (the typed one,    *)
(* src/unnamed/part_000 lines 416-919); src/app.go is the ideal-gas-only   *)
(* revision of the same functions.                                         *)
(*                                                                         *)
(* Numbers.  The program computes in float64.  The ideal-gas path uses     *)
(* only +, * and /, which are modelled over exact rationals n/d in lowest  *)
(* terms: the rounding of float64 (relative 2^-53 per operation) is not    *)
(* modelled there, so "equal" means equal as real numbers.  The Van der    *)
(* Waals path takes square and cube roots; it is modelled in a binary      *)
(* floating point of 28 bits, and a number that came out of it stays in    *)
(* that arithmetic.                                                        *)
(***************************************************************************)
EXTENDS Integers, Sequences, FiniteSets, TLC

VARIABLES
    pc,                     \* position in main / equalizeAndReport
    block,                  \* which of main's four calls is next (0..3), 4: printSummaries
    flags,                  \* the two twinset command-line flags
    gasSystem,              \* IdealGas or VanDerWaals, chosen once per run
    gasComposition,         \* fraction of each gas, fixed for the run
    temperature,            \* kelvin, fixed for the run
    cylinderConfiguration,  \* the configuration handed to equalizeAndReport
    sourceCylinders,        \* equalizeAndReport's local source list
    destinationCylinders,   \* equalizeAndReport's local destination list
    sourceI,                \* outer loop index (1-based)
    destinationI,           \* inner loop index (1-based)
    stepI,                  \* the loop's step counter
    description,            \* the scenario label of the current call
    calls,                  \* history: the groups passed to Equalize in the current call
    cylinderSummaries,      \* main's slots of returned summaries
    order,                  \* the pairing order in use (pairs of indices)
    a,                      \* main's index of the next free summary slot
    table,                  \* the rows printSummaries prints
    group,                  \* a group of cylinders handed to Equalize directly
    groupBefore,            \* that group before the last Equalize
    eqCount,                \* number of Equalize calls made on group
    args,                   \* main's numeric and mode flags as parsed
    printed,                \* the lines main printed with println
    exitCode,               \* <<c>> once os.Exit(c) was called, else <<>>
    applied                 \* the calls made of a function on its own, in order

vars == <<pc, block, flags, gasSystem, gasComposition, temperature,
          cylinderConfiguration, sourceCylinders,
          destinationCylinders, sourceI, destinationI, stepI, description, calls,
          cylinderSummaries, order, a, table, group, groupBefore, eqCount,
          args, printed, exitCode, applied>>

-----------------------------------------------------------------------------
(* Bounds of the model                                                     *)

MaxVolume == 3      \* configured volumes range over 1..MaxVolume litres
MaxPressure == 3    \* configured pressures range over 0..MaxPressure bar
MaxGroup == 3       \* largest group handed to Equalize directly
MaxCalls == 2       \* Equalize calls made on one such group

-----------------------------------------------------------------------------
(* float64 arithmetic, over exact rationals                                *)
(*                                                                         *)
(* A number is i + n/d with i its floor, 0 <= n < d and n/d in lowest      *)
(* terms (d = 1 when n = 0), so equal numbers are equal records.           *)

RECURSIVE Gcd(_, _)
Gcd(p, q) == IF q = 0 THEN p ELSE Gcd(q, p % q)

Abs(x) == IF x < 0 THEN -x ELSE x

\* nn/dd in lowest terms, as floor and fraction
Mixed(nn, dd) == [i |-> nn \div dd, n |-> nn % dd, d |-> dd]

\* n/d with g the greatest common divisor of n and d
Lowest(n, d, g) == Mixed(n \div g, d \div g)

\* n/d for an integer n and d > 0
Frac(n, d) == Lowest(n, d, Gcd(Abs(n), d))

Num(k) == [i |-> k, n |-> 0, d |-> 1]

Zero == Num(0)

\* i + f for an integer i
Carry(i, f) == [i |-> i + f.i, n |-> f.n, d |-> f.d]

\* x + y with g the greatest common divisor of the denominators
RAddOver(x, y, g) ==
    Carry(x.i + y.i, Frac(x.n * (y.d \div g) + y.n * (x.d \div g), (x.d \div g) * y.d))

RAdd(x, y) == RAddOver(x, y, Gcd(x.d, y.d))

\* k * n/d with g the greatest common divisor of k and d
ScaledOver(k, n, d, g) == Frac((k \div g) * n, d \div g)

\* k * n/d for an integer k
Scaled(k, n, d) == ScaledOver(k, n, d, Gcd(Abs(k), d))

\* xn/xd * yn/yd, cancelled crosswise by g1 and g2
Cancelled(xn, xd, yn, yd, g1, g2) ==
    Frac((xn \div g1) * (yn \div g2), (xd \div g2) * (yd \div g1))

RMul(x, y) ==
    RAdd(RAdd(Num(x.i * y.i), Scaled(x.i, y.n, y.d)),
         RAdd(Scaled(y.i, x.n, x.d),
              Cancelled(x.n, x.d, y.n, y.d, Gcd(x.n, y.d), Gcd(y.n, x.d))))

\* 1 / (p/d) for p # 0
Inverse(p, d) == IF p > 0 THEN Frac(d, p) ELSE Frac(-d, -p)

\* x / y for y # 0
RDiv(x, y) == RMul(x, Inverse(y.i * y.d + y.n, y.d))

RLess(x, y) == x.i < y.i \/ (x.i = y.i /\ x.n * y.d < y.n * x.d)

-----------------------------------------------------------------------------
(* float64 arithmetic with roots, over a binary floating point of 28 bits  *)
(*                                                                         *)
(* A number is m * 2^e with 2^27 <= |m| < 2^28, or zero; every operation   *)
(* rounds toward zero, so each carries a relative error below 2^-27.       *)
(* FNaN stands for float64's NaN and infinities.  Intermediate values are  *)
(* parameters of auxiliary operators, so that each is computed once.       *)

LimbBase == 2 ^ 14
MantissaTop == LimbBase * LimbBase
MantissaLow == MantissaTop \div 2

FZero == [m |-> 0, e |-> 0]
FNaN == [m |-> 0, e |-> 1]

Sign(v) == IF v < 0 THEN -1 ELSE 1

\* p / q rounded toward zero, q > 0
Trunc(p, q) == IF p >= 0 THEN p \div q ELSE -((-p) \div q)

\* m * 2^e with |m| < 2^28 shifted left by k, k/2, ..., 1 places, each where
\* that keeps it below 2^28
RECURSIVE ShiftLeft(_, _, _)
ShiftLeft(m, e, k) ==
    IF k = 0 THEN [m |-> m, e |-> e]
    ELSE IF Abs(m) < MantissaTop \div (2 ^ k)
    THEN ShiftLeft(m * (2 ^ k), e - k, k \div 2)
    ELSE ShiftLeft(m, e, k \div 2)

\* m * 2^e shifted right until |m| < 2^28
RECURSIVE ShiftRight(_, _)
ShiftRight(m, e) ==
    IF Abs(m) < MantissaTop THEN [m |-> m, e |-> e]
    ELSE ShiftRight(Trunc(m, 2), e + 1)

\* m * 2^e with the mantissa brought into range; |m| < 2^31
FNorm(m, e) == IF m = 0 THEN FZero ELSE ShiftLeft(ShiftRight(m, e).m, ShiftRight(m, e).e, 16)

FromInt(k) == FNorm(k, 0)

FNeg(x) == IF x = FNaN THEN FNaN ELSE [m |-> -x.m, e |-> x.e]

\* x + y for x.e >= y.e, with two guard bits
FAddAligned(x, y) ==
    IF x.e - y.e > 30 THEN x
    ELSE FNorm(x.m * 4 + Trunc(y.m * 4, 2 ^ (x.e - y.e)), x.e - 2)

FAdd(x, y) ==
    IF x = FNaN \/ y = FNaN THEN FNaN
    ELSE IF x.m = 0 THEN y
    ELSE IF y.m = 0 THEN x
    ELSE FAddAligned(IF x.e >= y.e THEN x ELSE y, IF x.e >= y.e THEN y ELSE x)

FSub(x, y) == FAdd(x, FNeg(y))

\* The product s * (hi * 2^14 + rest) * 2^(e + 14), hi < 2^28
FMulRounded(s, e, hi, rest) ==
    IF hi >= MantissaLow THEN [m |-> s * hi, e |-> e + 28]
    ELSE [m |-> s * (hi * 2 + rest \div (LimbBase \div 2)), e |-> e + 27]

\* top * 2^28 + t * 2^14
FMulCarried(s, e, top, t) == FMulRounded(s, e, top + t \div LimbBase, t % LimbBase)

\* The product of two mantissas by their 14-bit limbs
FMulLimbs(s, e, p1, p0, q1, q0) ==
    FMulCarried(s, e, p1 * q1, p1 * q0 + p0 * q1 + ((p0 * q0) \div LimbBase))

FMulAbs(s, e, p, q) ==
    FMulLimbs(s, e, p \div LimbBase, p % LimbBase, q \div LimbBase, q % LimbBase)

FMul(x, y) ==
    IF x = FNaN \/ y = FNaN THEN FNaN
    ELSE IF x.m = 0 \/ y.m = 0 THEN FZero
    ELSE FMulAbs(Sign(x.m) * Sign(y.m), x.e + y.e, Abs(x.m), Abs(y.m))

\* k further octal digits of the quotient q, remainder r, divisor b
RECURSIVE QuotientDigits(_, _, _, _)
QuotientDigits(q, r, b, k) ==
    IF k = 0 THEN <<q, r>>
    ELSE QuotientDigits(q * 8 + (r * 8) \div b, (r * 8) % b, b, k - 1)

\* The quotient from its 27 or 28 leading bits qr[1] and the remainder qr[2]
FDivRounded(s, e, qr, b) ==
    IF qr[1] >= MantissaLow THEN [m |-> s * qr[1], e |-> e - 27]
    ELSE [m |-> s * (qr[1] * 2 + (qr[2] * 2) \div b), e |-> e - 28]

FDivAbs(s, e, p, b) ==
    FDivRounded(s, e, QuotientDigits(IF p >= b THEN 1 ELSE 0,
                                     IF p >= b THEN p - b ELSE p, b, 9), b)

FDiv(x, y) ==
    IF x = FNaN \/ y = FNaN \/ y.m = 0 THEN FNaN
    ELSE IF x.m = 0 THEN FZero
    ELSE FDivAbs(Sign(x.m) * Sign(y.m), x.e - y.e, Abs(x.m), Abs(y.m))

\* The integer square root, by Newton's iteration from above
RECURSIVE ISqrtFrom(_, _)
ISqrtFrom(n, r) ==
    IF (r + n \div r) \div 2 >= r THEN r ELSE ISqrtFrom(n, (r + n \div r) \div 2)

ISqrt(n) == ISqrtFrom(n, 2 ^ 16)

\* The integer cube root of n < 2^30, by bisection: lo^3 <= n < hi^3
RECURSIVE ICbrtBetween(_, _, _)
ICbrtBetween(n, lo, hi) ==
    IF hi - lo <= 1 THEN lo
    ELSE IF ((lo + hi) \div 2) * ((lo + hi) \div 2) * ((lo + hi) \div 2) <= n
    THEN ICbrtBetween(n, (lo + hi) \div 2, hi)
    ELSE ICbrtBetween(n, lo, (lo + hi) \div 2)

ICbrt(n) == ICbrtBetween(n, 0, 1024)

\* One Newton step for the square root of x from y
SqrtStep(x, y) == FMul(FAdd(y, FDiv(x, y)), [m |-> MantissaLow, e |-> -28])

\* math.Sqrt: the integer root of the mantissa, then one Newton step
FSqrt(x) ==
    IF x = FNaN \/ x.m < 0 THEN FNaN
    ELSE IF x.m = 0 THEN FZero
    ELSE SqrtStep(x, FNorm(ISqrt(x.m * (2 ^ (x.e % 2)) * 4), (x.e - (x.e % 2) - 2) \div 2))

\* One Newton step for the cube root of x from y
CbrtStep(x, y) == FDiv(FAdd(FAdd(y, y), FDiv(x, FMul(y, y))), FromInt(3))

RECURSIVE CbrtSteps(_, _, _)
CbrtSteps(x, y, k) == IF k = 0 THEN y ELSE CbrtSteps(x, CbrtStep(x, y), k - 1)

\* math.Pow(x, 1/3.0): NaN for negative x; the integer root of the mantissa,
\* then two Newton steps
FCbrt(x) ==
    IF x = FNaN \/ x.m < 0 THEN FNaN
    ELSE IF x.m = 0 THEN FZero
    ELSE CbrtSteps(x, FNorm(ICbrt(x.m * (2 ^ (x.e % 3))), (x.e - (x.e % 3)) \div 3), 2)

\* f + 1 when the remainder r of a division by q rounds up, ties to even
RoundedUp(f, r, q) ==
    IF 2 * r < q THEN f
    ELSE IF 2 * r > q THEN f + 1
    ELSE IF f % 2 = 0 THEN f ELSE f + 1

\* The nearest integer of a number below 2^27 in magnitude, ties to even
FRound(x) ==
    IF x.e >= 0 THEN x.m * (2 ^ x.e)
    ELSE IF x.e < -29 THEN 0
    ELSE Sign(x.m) * RoundedUp(Abs(x.m) \div (2 ^ (-x.e)), Abs(x.m) % (2 ^ (-x.e)), 2 ^ (-x.e))

-----------------------------------------------------------------------------
(* Numbers of either kind                                                  *)

IsFlt(x) == "m" \in DOMAIN x

FromRat(x) == FAdd(FromInt(x.i), FDiv(FromInt(x.n), FromInt(x.d)))

AsFlt(x) == IF IsFlt(x) THEN x ELSE FromRat(x)

Add(x, y) ==
    IF IsFlt(x) \/ IsFlt(y) THEN FAdd(AsFlt(x), AsFlt(y)) ELSE RAdd(x, y)

Mul(x, y) ==
    IF IsFlt(x) \/ IsFlt(y) THEN FMul(AsFlt(x), AsFlt(y)) ELSE RMul(x, y)

\* x / y; the models' rational divisors are never zero
Div(x, y) ==
    IF IsFlt(x) \/ IsFlt(y) THEN FDiv(AsFlt(x), AsFlt(y)) ELSE RDiv(x, y)

Sub(x, y) == Add(x, Mul(Num(-1), y))

Less(x, y) ==
    IF IsFlt(x) \/ IsFlt(y) THEN FSub(AsFlt(x), AsFlt(y)).m < 0 ELSE RLess(x, y)

\* Mutant of Half: a twinset's cylinder gets the whole volume
Whole(x) == x

Half(x) == Div(x, Num(2))

\* Mutant of Round: the fraction is dropped
RoundTruncates(x) == IF IsFlt(x) THEN Trunc(x.m, 2 ^ (-x.e)) ELSE x.i

\* fmt's %.0f: the nearest integer, ties to even
Round(x) == IF IsFlt(x) THEN FRound(x) ELSE RoundedUp(x.i, x.n, x.d)

-----------------------------------------------------------------------------
(* Gas systems                                                             *)

IdealGas == "IdealGas"
VanDerWaals == "VanDerWaals"

\* The gases, in the order the struct revision of gasCompositionToMoles adds
\* them up (the map revision ranges over a Go map, whose order is unspecified)
GasOrder == <<"Argon", "Helium", "Hydrogen", "Neon", "Nitrogen", "Oxygen">>

\* const R, as the program writes it
R == Frac(831, 10000)

VanDerWaalsConstants ==
    [Argon    |-> [A |-> Frac(1355, 1000),  B |-> Frac(3201, 100000)],
     Helium   |-> [A |-> Frac(346, 10000),  B |-> Frac(238, 10000)],
     Hydrogen |-> [A |-> Frac(2476, 10000), B |-> Frac(2661, 100000)],
     Neon     |-> [A |-> Frac(2135, 10000), B |-> Frac(1709, 100000)],
     Nitrogen |-> [A |-> Frac(1370, 1000),  B |-> Frac(387, 10000)],
     Oxygen   |-> [A |-> Frac(1382, 1000),  B |-> Frac(3186, 100000)]]

\* Mutant of PartialPressure: the multiplier is added, not multiplied with
PartialPressureSum(p, pp) == Add(p, pp)

\* PressureBar.PartialPressure
PartialPressure(p, pp) == Mul(p, pp)

\* Mutant of GasWeightFromMole: the atomic weight alone
GasWeightFromMoleOfOne(moleCount, atomicWeight) == atomicWeight

\* GasWeightFromMole
GasWeightFromMole(moleCount, atomicWeight) == Mul(moleCount, atomicWeight)

\* AtomicWeightLookup, as the program writes it (Argon carries nitrogen's weight)
AtomicWeightLookup ==
    [Argon    |-> Frac(140067, 10000),
     Helium   |-> Frac(4002602, 1000000),
     Hydrogen |-> Frac(100784, 100000),
     Neon     |-> Frac(201797, 10000),
     Nitrogen |-> Frac(140067, 10000),
     Oxygen   |-> Frac(15999, 1000)]

\* GasToMoles, term by term.  The function's local variables are the
\* parameters of the operators below, so that each is computed once.
subterm1(A, B, P, Rg, Tk, a2, a3, b2, V3) ==
    FSub(FAdd(FMul(FMul(FromInt(2), a3), V3),
              FMul(FMul(FMul(FMul(FromInt(18), a2), b2), P), V3)),
         FMul(FMul(FMul(FMul(FMul(FromInt(9), a2), B), Rg), Tk), V3))

subterm2(A, B, P, Rg, Tk, a2, V2) ==
    FSub(FMul(FMul(FMul(FromInt(3), A), B),
              FAdd(FMul(FMul(B, P), V2), FMul(FMul(Rg, Tk), V2))),
         FMul(a2, V2))

subterm3(s1, s2) ==
    FCbrt(FAdd(s1, FSqrt(FAdd(FMul(FromInt(4), FMul(FMul(s2, s2), s2)),
                              FMul(s1, s1)))))

\* term1/(a*b) - term3/term2 + (0.33333*V)/b
GasToMolesTerms(A, B, V, s2, s3) ==
    FAdd(FSub(FDiv(FMul(FromRat(Frac(26457, 100000)), s3), FMul(A, B)),
              FDiv(FMul(FromRat(Frac(41997, 100000)), s2), FMul(FMul(A, B), s3))),
         FDiv(FMul(FromRat(Frac(33333, 100000)), V), B))

GasToMolesSubterms(A, B, V, s1, s2) == GasToMolesTerms(A, B, V, s2, subterm3(s1, s2))

GasToMolesPowers(A, B, P, V, Rg, Tk, a2, V2) ==
    GasToMolesSubterms(A, B, V,
                       subterm1(A, B, P, Rg, Tk, a2, FMul(a2, A), FMul(B, B), FMul(V2, V)),
                       subterm2(A, B, P, Rg, Tk, a2, V2))

GasToMolesLocals(A, B, P, V, Rg, Tk) ==
    GasToMolesPowers(A, B, P, V, Rg, Tk, FMul(A, A), FMul(V, V))

\* GasToMoles: the closed-form root of the Van der Waals cubic
GasToMoles(cylinderVolume, cylinderPressure, vdwConstants, T) ==
    GasToMolesLocals(AsFlt(vdwConstants.A), AsFlt(vdwConstants.B), AsFlt(cylinderPressure),
                     AsFlt(cylinderVolume), AsFlt(R), AsFlt(T))

\* gasCompositionToMoles: the moles of each gas at its partial pressure, added up
RECURSIVE gasCompositionToMolesUpTo(_, _, _, _, _)
gasCompositionToMolesUpTo(cylinderVolume, cylinderPressure, T, gc, k) ==
    IF k = 0 THEN Zero
    ELSE Add(gasCompositionToMolesUpTo(cylinderVolume, cylinderPressure, T, gc, k - 1),
             GasToMoles(cylinderVolume, PartialPressure(cylinderPressure, gc[GasOrder[k]]),
                        VanDerWaalsConstants[GasOrder[k]], T))

gasCompositionToMoles(cylinderVolume, cylinderPressure, T, gc) ==
    gasCompositionToMolesUpTo(cylinderVolume, cylinderPressure, T, gc, Len(GasOrder))

\* n * (-(a*n)/V2 - (R*float64(T))/(b*n-V))
MolesToPressureLocals(V, A, B, n, Rg, Tk) ==
    FMul(n, FSub(FDiv(FNeg(FMul(A, n)), FMul(V, V)),
                 FDiv(FMul(Rg, Tk), FSub(FMul(B, n), V))))

\* MolesToPressure
MolesToPressure(cylinderVolume, moleCount, T, vdwConstants) ==
    MolesToPressureLocals(AsFlt(cylinderVolume), AsFlt(vdwConstants.A), AsFlt(vdwConstants.B),
                          AsFlt(moleCount), AsFlt(R), AsFlt(T))

\* cylinderMolesToPressure: the pressure of each gas's share of n, added up
RECURSIVE cylinderMolesToPressureUpTo(_, _, _, _, _)
cylinderMolesToPressureUpTo(cylinderVolume, n, T, gc, k) ==
    IF k = 0 THEN Zero
    ELSE Add(cylinderMolesToPressureUpTo(cylinderVolume, n, T, gc, k - 1),
             MolesToPressure(cylinderVolume, Mul(n, gc[GasOrder[k]]), T,
                             VanDerWaalsConstants[GasOrder[k]]))

cylinderMolesToPressure(cylinderVolume, n, T, gc) ==
    cylinderMolesToPressureUpTo(cylinderVolume, n, T, gc, Len(GasOrder))

-----------------------------------------------------------------------------
(* Cylinders                                                               *)

Cylinder(desc, volume, pressure) ==
    [Description |-> desc, CylinderVolume |-> volume, Pressure |-> pressure]

\* Mutant of PressureFromVolumes: the total volume is taken off, not divided by
PressureFromVolumesDifference(gasVolume, totalVolume) == Sub(gasVolume, totalVolume)

PressureFromVolumes(gasVolume, totalVolume) == Div(gasVolume, totalVolume)

\* Cylinder.GasVolume: litres at 1 bar, or moles times 22.4
GasVolume(c, gs, gc, T) ==
    IF gs = IdealGas THEN Mul(c.CylinderVolume, c.Pressure)
    ELSE Mul(gasCompositionToMoles(c.CylinderVolume, c.Pressure, T, gc), Frac(224, 10))

\* Cylinder.Moles
Moles(c, T, gc) == gasCompositionToMoles(c.CylinderVolume, c.Pressure, T, gc)

\* The running sum of moles in Equalize's Van der Waals loop
RECURSIVE TotalMolesUpTo(_, _, _, _)
TotalMolesUpTo(cl, T, gc, k) ==
    IF k = 0 THEN Zero ELSE Add(TotalMolesUpTo(cl, T, gc, k - 1), Moles(cl[k], T, gc))

TotalMoles(cl, T, gc) == TotalMolesUpTo(cl, T, gc, Len(cl))

\* Mutant of TotalVolume: the first cylinder is left out of the sum
TotalVolumeSkipsFirst(cl) ==
    IF Len(cl) = 1 THEN cl[1].CylinderVolume
    ELSE Add(Zero, cl[2].CylinderVolume)

\* CylinderList.TotalVolume: the loop's running sum, first cylinder first
RECURSIVE TotalVolumeUpTo(_, _)
TotalVolumeUpTo(cl, k) ==
    IF k = 0 THEN Zero ELSE Add(TotalVolumeUpTo(cl, k - 1), cl[k].CylinderVolume)

TotalVolume(cl) == TotalVolumeUpTo(cl, Len(cl))

\* CylinderList.TotalGasVolume
RECURSIVE TotalGasVolumeUpTo(_, _, _, _, _)
TotalGasVolumeUpTo(cl, gs, gc, T, k) ==
    IF k = 0 THEN Zero
    ELSE Add(TotalGasVolumeUpTo(cl, gs, gc, T, k - 1), GasVolume(cl[k], gs, gc, T))

TotalGasVolume(cl, gs, gc, T) == TotalGasVolumeUpTo(cl, gs, gc, T, Len(cl))

\* Mutant of PressureAfterEqualize: the mean of the pressures, volumes ignored
RECURSIVE PressureSumUpTo(_, _)
PressureSumUpTo(cl, k) ==
    IF k = 0 THEN Zero ELSE Add(PressureSumUpTo(cl, k - 1), cl[k].Pressure)

PressureAfterEqualizeUnweighted(cylinders, gs, gc, T) ==
    Div(PressureSumUpTo(cylinders, Len(cylinders)), Num(Len(cylinders)))

\* Mutant of PressureAfterEqualize: the gas volume is divided by the number of
\* cylinders instead of their total volume
PressureAfterEqualizePerCylinder(cylinders, gs, gc, T) ==
    Div(TotalGasVolume(cylinders, gs, gc, T), Num(Len(cylinders)))

\* The pressure Equalize computes for the group
PressureAfterEqualize(cylinders, gs, gc, T) ==
    IF gs = IdealGas
    THEN PressureFromVolumes(TotalGasVolume(cylinders, gs, gc, T), TotalVolume(cylinders))
    ELSE cylinderMolesToPressure(TotalVolume(cylinders), TotalMoles(cylinders, T, gc), T, gc)

\* Mutant of Equalize: the write-back loop stops one cylinder early
EqualizeSkipsLast(cylinders, gs, gc, T) ==
    LET pressureAfterEqualize == PressureAfterEqualize(cylinders, gs, gc, T)
    IN  [i \in DOMAIN cylinders |->
            IF i < Len(cylinders) \/ Len(cylinders) = 1
            THEN [cylinders[i] EXCEPT !.Pressure = pressureAfterEqualize]
            ELSE cylinders[i]]

\* Equalize: every cylinder of the group gets the computed pressure
Equalize(cylinders, gs, gc, T) ==
    LET pressureAfterEqualize == PressureAfterEqualize(cylinders, gs, gc, T)
    IN  [i \in DOMAIN cylinders |->
            [cylinders[i] EXCEPT !.Pressure = pressureAfterEqualize]]

\* Cylinder.Equalize: c1.Equalize(c2) equalizes the list {c1, c2}
CylinderEqualize(c1, c2, gs, gc, T) == Equalize(<<c1, c2>>, gs, gc, T)

-----------------------------------------------------------------------------
(* Configurations                                                          *)

CylinderConfiguration(dTwin, dP, dV, sTwin, sP, sV) ==
    [DestinationCylinderIsTwinset |-> dTwin,
     DestinationCylinderPressure  |-> dP,
     DestinationCylinderVolume    |-> dV,
     SourceCylinderIsTwinset      |-> sTwin,
     SourceCylinderPressure       |-> sP,
     SourceCylinderVolume         |-> sV]

\* The README's worked example
ExampleSourceVolume == 24
ExampleSourcePressure == 210
ExampleDestinationVolume == 17
ExampleDestinationPressure == 80

IsExample(c) ==
    /\ c.SourceCylinderVolume = Num(ExampleSourceVolume)
    /\ c.SourceCylinderPressure = Num(ExampleSourcePressure)
    /\ c.DestinationCylinderVolume = Num(ExampleDestinationVolume)
    /\ c.DestinationCylinderPressure = Num(ExampleDestinationPressure)

\* The inputs of the model: volumes and pressures that pass main's validation
\* (volumes > 0, source pressure > 0 and not below the destination pressure)
Inputs ==
    {[sV |-> Num(sv), sP |-> Num(sp), dV |-> Num(dv), dP |-> Num(dp)] :
        sv \in 1..MaxVolume, sp \in 1..MaxPressure,
        dv \in 1..MaxVolume, dp \in 0..MaxPressure}
    \cup {[sV |-> Num(ExampleSourceVolume), sP |-> Num(ExampleSourcePressure),
           dV |-> Num(ExampleDestinationVolume), dP |-> Num(ExampleDestinationPressure)]}

ValidInputs == {i \in Inputs : ~Less(i.sP, i.dP)}

\* The Van der Waals runs of main are those of the worked example
VanDerWaalsInputs ==
    {i \in ValidInputs :
        /\ i.sV = Num(ExampleSourceVolume) /\ i.sP = Num(ExampleSourcePressure)
        /\ i.dV = Num(ExampleDestinationVolume) /\ i.dP = Num(ExampleDestinationPressure)}

-----------------------------------------------------------------------------
(* equalizeAndReport                                                       *)

\* Mutant of initializeCylinders: a twinset's cylinders keep the full volume
initializeCylindersFullVolume(c) ==
    [source |->
        IF c.SourceCylinderIsTwinset
        THEN <<Cylinder("left", c.SourceCylinderVolume, c.SourceCylinderPressure),
               Cylinder("right", c.SourceCylinderVolume, c.SourceCylinderPressure)>>
        ELSE <<Cylinder("source", c.SourceCylinderVolume, c.SourceCylinderPressure)>>,
     destination |->
        IF c.DestinationCylinderIsTwinset
        THEN <<Cylinder("left", c.DestinationCylinderVolume, c.DestinationCylinderPressure),
               Cylinder("right", c.DestinationCylinderVolume, c.DestinationCylinderPressure)>>
        ELSE <<Cylinder("destination", c.DestinationCylinderVolume, c.DestinationCylinderPressure)>>]

\* Mutant of initializeCylinders: the source twinset's right cylinder is given
\* the destination pressure
initializeCylindersWrongPressure(c) ==
    [source |->
        IF c.SourceCylinderIsTwinset
        THEN <<Cylinder("left", Half(c.SourceCylinderVolume), c.SourceCylinderPressure),
               Cylinder("right", Half(c.SourceCylinderVolume), c.DestinationCylinderPressure)>>
        ELSE <<Cylinder("source", c.SourceCylinderVolume, c.SourceCylinderPressure)>>,
     destination |->
        IF c.DestinationCylinderIsTwinset
        THEN <<Cylinder("left", Half(c.DestinationCylinderVolume), c.DestinationCylinderPressure),
               Cylinder("right", Half(c.DestinationCylinderVolume), c.DestinationCylinderPressure)>>
        ELSE <<Cylinder("destination", c.DestinationCylinderVolume, c.DestinationCylinderPressure)>>]

initializeCylinders(c) ==
    [source |->
        IF c.SourceCylinderIsTwinset
        THEN <<Cylinder("left", Half(c.SourceCylinderVolume), c.SourceCylinderPressure),
               Cylinder("right", Half(c.SourceCylinderVolume), c.SourceCylinderPressure)>>
        ELSE <<Cylinder("source", c.SourceCylinderVolume, c.SourceCylinderPressure)>>,
     destination |->
        IF c.DestinationCylinderIsTwinset
        THEN <<Cylinder("left", Half(c.DestinationCylinderVolume), c.DestinationCylinderPressure),
               Cylinder("right", Half(c.DestinationCylinderVolume), c.DestinationCylinderPressure)>>
        ELSE <<Cylinder("destination", c.DestinationCylinderVolume, c.DestinationCylinderPressure)>>]

\* Mutant of Description: the one-sided labels are exchanged
DescriptionExchanged(c) ==
    IF c.DestinationCylinderIsTwinset /\ c.SourceCylinderIsTwinset
    THEN "both manifolds closed"
    ELSE IF c.DestinationCylinderIsTwinset THEN "source manifold closed"
    ELSE IF c.SourceCylinderIsTwinset THEN "destination manifold closed"
    ELSE "all manifolds open"

Description(c) ==
    IF c.DestinationCylinderIsTwinset /\ c.SourceCylinderIsTwinset
    THEN "both manifolds closed"
    ELSE IF c.DestinationCylinderIsTwinset THEN "destination manifold closed"
    ELSE IF c.SourceCylinderIsTwinset THEN "source manifold closed"
    ELSE "all manifolds open"

\* Mutant of PairwiseStored: the two equalized cylinders are stored crosswise
PairwiseStoredExchanged(src, dst, si, di, eq) ==
    [source |-> [src EXCEPT ![si] = eq[1]],
     destination |-> [dst EXCEPT ![di] = eq[2]]]

\* One pass of the loop body on the pair (si, di): the destination cylinder
\* equalizes with the source cylinder
PairwiseStored(src, dst, si, di, eq) ==
    [source |-> [src EXCEPT ![si] = eq[2]],
     destination |-> [dst EXCEPT ![di] = eq[1]]]

\* Mutant of PairwiseStep: the source cylinder keeps its pressure
PairwiseStepSourceKept(src, dst, si, di, gs, gc, T) ==
    [source |-> src,
     destination |-> [dst EXCEPT ![di] = CylinderEqualize(dst[di], src[si], gs, gc, T)[1]]]

PairwiseStep(src, dst, si, di, gs, gc, T) ==
    PairwiseStored(src, dst, si, di, CylinderEqualize(dst[di], src[si], gs, gc, T))

\* Mutant of NextPair: the inner loop ends after its first pass
NextPairInnerOnce(si, di, nd) == <<si + 1, 1>>

\* The loops' next pair of indices: inner loop over the destinations first
NextPair(si, di, nd) ==
    IF di < nd THEN <<si, di + 1>> ELSE <<si + 1, 1>>

\* The summary equalizeAndReport returns
\* The summary from each side's gas volume and total cylinder volume
CylinderSummaryOf(desc, sourceGasVolume, sourceVolume, destinationGasVolume, destinationVolume) ==
    [Description |-> desc,
     DestinationCylinderGasVolume |-> destinationGasVolume,
     DestinationCylinderPressure |-> PressureFromVolumes(destinationGasVolume, destinationVolume),
     SourceCylinderGasVolume |-> sourceGasVolume,
     SourceCylinderPressure |-> PressureFromVolumes(sourceGasVolume, sourceVolume)]

CylinderSummary(desc, src, dst, gs, gc, T) ==
    CylinderSummaryOf(desc, TotalGasVolume(src, gs, gc, T), TotalVolume(src),
                      TotalGasVolume(dst, gs, gc, T), TotalVolume(dst))

\* An unused slot of make([]CylinderSummary, 4)
EmptySummary ==
    [Description |-> "",
     DestinationCylinderGasVolume |-> Zero, DestinationCylinderPressure |-> Zero,
     SourceCylinderGasVolume |-> Zero, SourceCylinderPressure |-> Zero]

\* x == 0 on a float64
IsZero(x) == IF IsFlt(x) THEN x = FZero ELSE x = Zero

\* One pass of printSummaries' first loop: p replaces worst when it is lower
\* or when worst is 0
WorseOf(worst, p) == IF Less(p, worst) \/ IsZero(worst) THEN p ELSE worst

\* printSummaries' worstDestinationPressure after the first k slots
RECURSIVE worstDestinationPressureUpTo(_, _)
worstDestinationPressureUpTo(summaries, k) ==
    IF k = 0 THEN Zero
    ELSE WorseOf(worstDestinationPressureUpTo(summaries, k - 1),
                 summaries[k].DestinationCylinderPressure)

worstDestinationPressure(summaries) ==
    worstDestinationPressureUpTo(summaries, Len(summaries))

\* What %10.2f%% prints of 100 * diff / worst: the number in hundredths, or
\* the float64 quotient of a division by 0
ImprovementOver(diff, worst) ==
    IF IsZero(worst)
    THEN [kind |-> IF IsZero(diff) THEN "NaN" ELSE IF Less(diff, Zero) THEN "-Inf" ELSE "+Inf",
          hundredths |-> 0]
    ELSE [kind |-> "number",
          hundredths |-> Round(Mul(Num(100), Div(Mul(Num(100), diff), worst)))]

Improvement(p, worst) == ImprovementOver(Sub(p, worst), worst)

\* The rows printSummaries prints: label, src bar, src l, dst bar, dst l (%.0f)
\* and the improvement
TableRow(cs, worst) ==
    <<cs.Description, Round(cs.SourceCylinderPressure), Round(cs.SourceCylinderGasVolume),
      Round(cs.DestinationCylinderPressure), Round(cs.DestinationCylinderGasVolume),
      Improvement(cs.DestinationCylinderPressure, worst)>>

RECURSIVE TableRows(_, _, _)
TableRows(summaries, k, worst) ==
    IF k = 0 THEN <<>>
    ELSE IF summaries[k].Description = "" THEN TableRows(summaries, k - 1, worst)
    ELSE Append(TableRows(summaries, k - 1, worst), TableRow(summaries[k], worst))

-----------------------------------------------------------------------------
(* main                                                                    *)

\* The run-wide inputs main derives from its flags' defaults
DefaultTemperature == Frac(29315, 100)    \* 20.0 + 273.15
\* main's gasComposition: nitrogen is what the five flags leave of 1.0
GasCompositionFromFlags(helium, oxygen, neon, argon, hydrogen) ==
    LET gasSum == Add(Add(Add(Add(helium, oxygen), neon), argon), hydrogen)
    IN  [Argon    |-> argon,
         Helium   |-> helium,
         Hydrogen |-> hydrogen,
         Neon     |-> neon,
         Nitrogen |-> Sub(Num(1), gasSum),
         Oxygen   |-> oxygen]

\* The flags' defaults: oxygen 0.21, the others 0
DefaultComposition == GasCompositionFromFlags(Zero, Frac(21, 100), Zero, Zero, Zero)

\* The compositions of the model: air, a trimix (18 % oxygen, 45 % helium)
\* and nitrogen alone
Compositions ==
    {DefaultComposition,
     GasCompositionFromFlags(Frac(45, 100), Frac(18, 100), Zero, Zero, Zero),
     GasCompositionFromFlags(Zero, Zero, Zero, Zero, Zero)}

\* Whether main makes its b-th call of equalizeAndReport (b = 0..3)
BlockRuns(b, f) ==
    CASE b = 0 -> TRUE
      [] b = 1 -> f.source
      [] b = 2 -> f.destination
      [] OTHER -> f.destination \/ f.source

\* The configuration main passes in its b-th call
BlockConfiguration(b, c) ==
    CASE b = 0 -> c
      [] b = 1 -> [c EXCEPT !.SourceCylinderIsTwinset = FALSE]
      [] b = 2 -> [c EXCEPT !.DestinationCylinderIsTwinset = FALSE]
      [] OTHER -> [c EXCEPT !.DestinationCylinderIsTwinset = FALSE,
                            !.SourceCylinderIsTwinset = FALSE]

\* main's configuration after its b-th call returned
RestoredConfiguration(b, c) ==
    CASE b = 1 -> [c EXCEPT !.SourceCylinderIsTwinset = TRUE]
      [] b = 2 -> [c EXCEPT !.DestinationCylinderIsTwinset = TRUE]
      [] OTHER -> c

\* A run whose flags passed main's validation: nothing printed, no exit
PastValidation ==
    /\ args = <<>>
    /\ printed = <<>>
    /\ exitCode = <<>>

Idle ==
    /\ applied = <<>>
    /\ order = <<>>
    /\ group = <<>>
    /\ groupBefore = <<>>
    /\ eqCount = 0

Init ==
    /\ pc = "main"
    /\ block = 0
    /\ flags \in [source : BOOLEAN, destination : BOOLEAN]
    /\ gasSystem \in {IdealGas, VanDerWaals}
    /\ gasComposition = DefaultComposition
    /\ temperature = DefaultTemperature
    /\ \E i \in IF gasSystem = IdealGas THEN ValidInputs ELSE VanDerWaalsInputs :
         cylinderConfiguration =
            CylinderConfiguration(flags.destination, i.dP, i.dV, flags.source, i.sP, i.sV)
    /\ sourceCylinders = <<>>
    /\ destinationCylinders = <<>>
    /\ sourceI = 0
    /\ destinationI = 0
    /\ stepI = 0
    /\ description = ""
    /\ calls = <<>>
    /\ cylinderSummaries = [k \in 1..4 |-> EmptySummary]
    /\ a = 0
    /\ table = <<>>
    /\ Idle
    /\ PastValidation

\* main calls equalizeAndReport: the function's start, up to its loops
MainCall ==
    /\ pc = "main"
    /\ block <= 3
    /\ BlockRuns(block, flags)
    /\ LET c == BlockConfiguration(block, cylinderConfiguration)
           cl == initializeCylinders(c)
       IN  /\ cylinderConfiguration' = c
           /\ sourceCylinders' = cl.source
           /\ destinationCylinders' = cl.destination
           /\ description' = Description(c)
    /\ stepI' = 0
    /\ sourceI' = 1
    /\ destinationI' = 1
    /\ calls' = <<>>
    /\ pc' = "loop"
    /\ UNCHANGED <<block, flags, gasSystem, gasComposition, temperature,
                   cylinderSummaries, a, table, order, group, groupBefore, eqCount,
                   args, printed, exitCode, applied>>

\* main skips a call whose condition is false
MainSkip ==
    /\ pc = "main"
    /\ block <= 3
    /\ ~BlockRuns(block, flags)
    /\ block' = block + 1
    /\ UNCHANGED <<pc, flags, gasSystem, gasComposition, temperature,
                   cylinderConfiguration, sourceCylinders, destinationCylinders,
                   sourceI, destinationI, stepI, description, calls,
                   cylinderSummaries, a, table, order, group, groupBefore, eqCount,
                   args, printed, exitCode, applied>>

\* One pass of the nested loops' body
LoopStep ==
    /\ pc = "loop"
    /\ \E r \in {PairwiseStep(sourceCylinders, destinationCylinders, sourceI, destinationI,
                                gasSystem, gasComposition, temperature)} :
           /\ sourceCylinders' = r.source
           /\ destinationCylinders' = r.destination
    /\ LET next == NextPair(sourceI, destinationI, Len(destinationCylinders))
       IN  /\ sourceI' = next[1]
           /\ destinationI' = next[2]
           /\ pc' = IF next[1] > Len(sourceCylinders) THEN "final" ELSE "loop"
    /\ stepI' = stepI + 1
    /\ calls' = Append(calls, <<<<"destination", destinationI>>, <<"source", sourceI>>>>)
    /\ UNCHANGED <<block, flags, gasSystem, gasComposition, temperature,
                   cylinderConfiguration, description, cylinderSummaries, a, table,
                   order, group, groupBefore, eqCount,
                   args, printed, exitCode, applied>>

\* After the loops: the destination group is equalized, the summary is returned
\* and main stores it
FinalEqualize ==
    /\ pc = "final"
    /\ destinationCylinders' =
          Equalize(destinationCylinders, gasSystem, gasComposition, temperature)
    /\ cylinderSummaries' =
          [cylinderSummaries EXCEPT ![a + 1] =
              CylinderSummary(description, sourceCylinders, destinationCylinders',
                              gasSystem, gasComposition, temperature)]
    /\ calls' = Append(calls, [k \in 1..Len(destinationCylinders) |-> <<"destination", k>>])
    /\ a' = a + 1
    /\ cylinderConfiguration' = RestoredConfiguration(block, cylinderConfiguration)
    /\ block' = block + 1
    /\ pc' = "main"
    /\ UNCHANGED <<flags, gasSystem, gasComposition, temperature, sourceCylinders,
                   sourceI, destinationI, stepI, description, table,
                   order, group, groupBefore, eqCount,
                   args, printed, exitCode, applied>>

PrintSummaries ==
    /\ pc = "main"
    /\ block = 4
    /\ table' = TableRows(cylinderSummaries, Len(cylinderSummaries),
                           worstDestinationPressure(cylinderSummaries))
    /\ pc' = "done"
    /\ UNCHANGED <<block, flags, gasSystem, gasComposition, temperature,
                   cylinderConfiguration, sourceCylinders, destinationCylinders,
                   sourceI, destinationI, stepI, description, calls,
                   cylinderSummaries, a, order, group, groupBefore, eqCount,
                   args, printed, exitCode, applied>>

Next ==
    \/ MainCall
    \/ MainSkip
    \/ LoopStep
    \/ FinalEqualize
    \/ PrintSummaries

Spec == Init /\ [][Next]_vars

-----------------------------------------------------------------------------
(* Equalize on its own, on any group                                       *)

GroupCylinders ==
    {Cylinder("cylinder", Num(v), Num(p)) : v \in 1..MaxVolume, p \in 0..MaxPressure}

Groups == UNION {[1..n -> GroupCylinders] : n \in 1..MaxGroup}

\* The cylinders and groups Equalize is run on in Van der Waals mode
VanDerWaalsCylinders ==
    {Cylinder("cylinder", v, Num(p)) : v \in {Num(12), Frac(17, 2)}, p \in {0, 80, 210}}

VanDerWaalsGroups == UNION {[1..n -> VanDerWaalsCylinders] : n \in 1..2}

InitEqualize ==
    /\ pc = "equalize"
    /\ block = 0
    /\ flags = [source |-> FALSE, destination |-> FALSE]
    /\ gasSystem \in {IdealGas, VanDerWaals}
    /\ gasComposition \in IF gasSystem = IdealGas THEN {DefaultComposition} ELSE Compositions
    /\ temperature = DefaultTemperature
    /\ cylinderConfiguration =
          CylinderConfiguration(FALSE, Num(0), Num(1), FALSE, Num(1), Num(1))
    /\ sourceCylinders = <<>>
    /\ destinationCylinders = <<>>
    /\ sourceI = 0
    /\ destinationI = 0
    /\ stepI = 0
    /\ description = ""
    /\ calls = <<>>
    /\ cylinderSummaries = [k \in 1..4 |-> EmptySummary]
    /\ a = 0
    /\ table = <<>>
    /\ order = <<>>
    /\ group \in IF gasSystem = IdealGas THEN Groups ELSE VanDerWaalsGroups
    /\ groupBefore = group
    /\ eqCount = 0
    /\ applied = <<>>
    /\ PastValidation

EqualizeGroup ==
    /\ pc = "equalize"
    /\ eqCount < MaxCalls
    /\ group' = Equalize(group, gasSystem, gasComposition, temperature)
    /\ groupBefore' = group
    /\ eqCount' = eqCount + 1
    /\ UNCHANGED <<pc, block, flags, gasSystem, gasComposition, temperature,
                   cylinderConfiguration, sourceCylinders, destinationCylinders,
                   sourceI, destinationI, stepI, description, calls,
                   cylinderSummaries, a, table, order,
                   args, printed, exitCode, applied>>

NextEqualize == EqualizeGroup

SpecEqualize == InitEqualize /\ [][NextEqualize]_vars

-----------------------------------------------------------------------------
(* The scenario with its pairwise steps taken in any order                 *)

\* The pairs in the order of the code's loops: source-major, destination-minor
RECURSIVE CodeOrderFrom(_, _, _, _)
CodeOrderFrom(si, di, ns, nd) ==
    IF si > ns THEN <<>>
    ELSE <<<<si, di>>>> \o CodeOrderFrom(NextPair(si, di, nd)[1], NextPair(si, di, nd)[2], ns, nd)

CodeOrder(ns, nd) == CodeOrderFrom(1, 1, ns, nd)

Orders(ns, nd) ==
    LET co == CodeOrder(ns, nd)
    IN  {[k \in 1..Len(co) |-> co[f[k]]] : f \in Permutations(1..Len(co))}

\* The pairwise step on pair = <<si, di>> of the two lists cl
PairwiseStepOn(cl, pair, gs, gc, T) ==
    PairwiseStep(cl.source, cl.destination, pair[1], pair[2], gs, gc, T)

\* The lists after the pairwise steps pairs[1..k], taken in that order
RECURSIVE AfterPairs(_, _, _, _, _, _)
AfterPairs(cl, pairs, k, gs, gc, T) ==
    IF k = 0 THEN cl
    ELSE PairwiseStepOn(AfterPairs(cl, pairs, k - 1, gs, gc, T), pairs[k], gs, gc, T)

\* What equalizeAndReport returns for configuration c with the pairs taken in
\* the given order
SummaryAfterPairs(c, cl, gs, gc, T) ==
    CylinderSummary(Description(c), cl.source, Equalize(cl.destination, gs, gc, T), gs, gc, T)

equalizeAndReport(c, pairs, gs, gc, T) ==
    SummaryAfterPairs(c, AfterPairs(initializeCylinders(c), pairs, Len(pairs), gs, gc, T),
                      gs, gc, T)

InitOrder ==
    /\ pc = "ordered"
    /\ block = 0
    /\ flags \in [source : BOOLEAN, destination : BOOLEAN]
    /\ gasSystem = IdealGas
    /\ gasComposition = DefaultComposition
    /\ temperature = DefaultTemperature
    /\ \E i \in ValidInputs :
         cylinderConfiguration =
            CylinderConfiguration(flags.destination, i.dP, i.dV, flags.source, i.sP, i.sV)
    /\ sourceCylinders = initializeCylinders(cylinderConfiguration).source
    /\ destinationCylinders = initializeCylinders(cylinderConfiguration).destination
    /\ sourceI = 0
    /\ destinationI = 0
    /\ stepI = 0
    /\ description = Description(cylinderConfiguration)
    /\ calls = <<>>
    /\ cylinderSummaries = [k \in 1..4 |-> EmptySummary]
    /\ a = 0
    /\ table = <<>>
    /\ order \in Orders(Len(sourceCylinders), Len(destinationCylinders))
    /\ group = <<>>
    /\ groupBefore = <<>>
    /\ eqCount = 0
    /\ applied = <<>>
    /\ PastValidation

\* The next pairwise step of the chosen order
OrderedStep ==
    /\ pc = "ordered"
    /\ stepI < Len(order)
    /\ \E r \in {PairwiseStepOn([source |-> sourceCylinders,
                                    destination |-> destinationCylinders],
                                   order[stepI + 1], gasSystem, gasComposition, temperature)} :
           /\ sourceCylinders' = r.source
           /\ destinationCylinders' = r.destination
    /\ LET pair == order[stepI + 1]
       IN  /\ sourceI' = pair[1]
           /\ destinationI' = pair[2]
           /\ calls' = Append(calls, <<<<"destination", pair[2]>>, <<"source", pair[1]>>>>)
    /\ stepI' = stepI + 1
    /\ UNCHANGED <<pc, block, flags, gasSystem, gasComposition, temperature,
                   cylinderConfiguration, description, cylinderSummaries, a, table,
                   order, group, groupBefore, eqCount,
                   args, printed, exitCode, applied>>

\* The final destination-group Equalize and the summary
OrderedFinal ==
    /\ pc = "ordered"
    /\ stepI = Len(order)
    /\ destinationCylinders' =
          Equalize(destinationCylinders, gasSystem, gasComposition, temperature)
    /\ cylinderSummaries' =
          [cylinderSummaries EXCEPT ![a + 1] =
              CylinderSummary(description, sourceCylinders, destinationCylinders',
                              gasSystem, gasComposition, temperature)]
    /\ calls' = Append(calls, [k \in 1..Len(destinationCylinders) |-> <<"destination", k>>])
    /\ a' = a + 1
    /\ pc' = "done"
    /\ UNCHANGED <<block, flags, gasSystem, gasComposition, temperature,
                   cylinderConfiguration, sourceCylinders, sourceI, destinationI, stepI,
                   description, table, order, group, groupBefore, eqCount,
                   args, printed, exitCode, applied>>

NextOrder ==
    \/ OrderedStep
    \/ OrderedFinal

SpecOrder == InitOrder /\ [][NextOrder]_vars

-----------------------------------------------------------------------------
(* main from flag.Parse on: the validation, then the scenario calls        *)

\* The limits main compares its flags with
LowTemperature == -30
HighTemperature == 80
PressureLimit == 350
VolumeLimit == 1000
\* Celsius to Kelvin
KelvinOffset == Frac(27315, 100)

\* The flags' default values
DefaultCelsius == 20
DefaultSourcePressure == 232
DefaultDestinationPressure == 100
DefaultVolume == 24

\* How far beyond a limit the flag values of the model go
Margin == 1

\* A limit lim and the values up to Margin below and above it
Around(lim) == (lim - Margin)..(lim + Margin)

TemperatureFlags == {DefaultCelsius} \cup Around(LowTemperature) \cup Around(HighTemperature)

SourcePressureFlags == {DefaultSourcePressure} \cup Around(0) \cup Around(PressureLimit)

DestinationPressureFlags == {DefaultDestinationPressure} \cup Around(0) \cup Around(PressureLimit)

VolumeFlags == {DefaultVolume} \cup Around(0) \cup Around(VolumeLimit)

\* The five fraction flags <<helium, oxygen, neon, argon, hydrogen>>
FractionFlags ==
    {<<he, o, ne, ar, h>> :
        he \in {Frac(-1, 2), Zero, Frac(1, 2)}, o \in {Frac(21, 100), Frac(1, 2)},
        ne \in {Zero, Frac(1, 2)}, ar \in {Zero, Frac(1, 4)}, h \in {Zero, Frac(-1, 4)}}

DefaultFractions == <<Zero, Frac(21, 100), Zero, Zero, Zero>>

Args(celsius, fractions, sP, dP, sV, dV, ideal) ==
    [temperature |-> Num(celsius),
     helium |-> fractions[1], oxygen |-> fractions[2], neon |-> fractions[3],
     argon |-> fractions[4], hydrogen |-> fractions[5],
     sourceCylinderPressure |-> Num(sP), destinationCylinderPressure |-> Num(dP),
     sourceCylinderVolume |-> Num(sV), destinationCylinderVolume |-> Num(dV),
     useIdealGas |-> ideal]

\* Ideal-gas command lines: the temperature and the fractions take all their
\* values with default cylinders, and the cylinders' pressures and volumes
\* take all theirs with every temperature and with air
IdealGasArgs ==
    {Args(t, f, DefaultSourcePressure, DefaultDestinationPressure,
          DefaultVolume, DefaultVolume, TRUE) : t \in TemperatureFlags, f \in FractionFlags}
    \cup {Args(t, DefaultFractions, sP, dP, sV, dV, TRUE) :
            t \in {DefaultCelsius, LowTemperature, HighTemperature + 1},
            sP \in SourcePressureFlags, dP \in DestinationPressureFlags,
            sV \in VolumeFlags, dV \in VolumeFlags}

\* Van der Waals command lines: the defaults, at every temperature
VanDerWaalsArgs ==
    {Args(t, DefaultFractions, DefaultSourcePressure, DefaultDestinationPressure,
          DefaultVolume, DefaultVolume, FALSE) : t \in TemperatureFlags}

\* The twinset flags take all their values with the default cylinders
DefaultCylinders(g) ==
    /\ g.sourceCylinderPressure = Num(DefaultSourcePressure)
    /\ g.destinationCylinderPressure = Num(DefaultDestinationPressure)
    /\ g.sourceCylinderVolume = Num(DefaultVolume)
    /\ g.destinationCylinderVolume = Num(DefaultVolume)

gasSum(g) == Add(Add(Add(Add(g.helium, g.oxygen), g.neon), g.argon), g.hydrogen)

\* main's conditions, in the order of its if statements
TemperatureRejected(g) ==
    Less(g.temperature, Num(LowTemperature)) \/ Less(Num(HighTemperature), g.temperature)

\* Mutant of GasSumRejected: a sum of exactly 1.0 is rejected as well
GasSumRejectedAtOne(g) == ~Less(gasSum(g), Num(1))

GasSumRejected(g) == Less(Num(1), gasSum(g))

DestinationPressureRejected(g) ==
    \/ Less(Num(PressureLimit), g.destinationCylinderPressure)
    \/ Less(g.destinationCylinderPressure, Zero)

\* Mutant of SourcePressureRejected: a source at exactly 350 bar is rejected
SourcePressureRejectedAtLimit(g) ==
    \/ ~Less(g.sourceCylinderPressure, Num(PressureLimit))
    \/ ~Less(Zero, g.sourceCylinderPressure)

SourcePressureRejected(g) ==
    \/ Less(Num(PressureLimit), g.sourceCylinderPressure)
    \/ ~Less(Zero, g.sourceCylinderPressure)

PressureOrderRejected(g) == Less(g.sourceCylinderPressure, g.destinationCylinderPressure)

DestinationVolumeRejected(g) ==
    \/ ~Less(Zero, g.destinationCylinderVolume)
    \/ Less(Num(VolumeLimit), g.destinationCylinderVolume)

\* Mutant of SourceVolumeRejected: a volume of exactly 1000 l is rejected, as
\* the message "less than 1000" has it
SourceVolumeRejectedAtLimit(g) ==
    \/ ~Less(Zero, g.sourceCylinderVolume)
    \/ ~Less(g.sourceCylinderVolume, Num(VolumeLimit))

SourceVolumeRejected(g) ==
    \/ ~Less(Zero, g.sourceCylinderVolume)
    \/ Less(Num(VolumeLimit), g.sourceCylinderVolume)

InitMain ==
    /\ pc = "temperature"
    /\ block = 0
    /\ args \in IdealGasArgs \cup VanDerWaalsArgs
    /\ flags \in IF DefaultCylinders(args) THEN [source : BOOLEAN, destination : BOOLEAN]
                 ELSE {[source |-> FALSE, destination |-> FALSE]}
    /\ gasSystem = ""
    /\ gasComposition = <<>>
    /\ temperature = Zero
    /\ cylinderConfiguration = <<>>
    /\ sourceCylinders = <<>>
    /\ destinationCylinders = <<>>
    /\ sourceI = 0
    /\ destinationI = 0
    /\ stepI = 0
    /\ description = ""
    /\ calls = <<>>
    /\ cylinderSummaries = <<>>
    /\ a = 0
    /\ table = <<>>
    /\ Idle
    /\ printed = <<>>
    /\ exitCode = <<>>

\* What an if statement of the validation leaves alone
ValidationUnchanged ==
    UNCHANGED <<block, flags, args, gasSystem, temperature, cylinderConfiguration,
                sourceCylinders, destinationCylinders, sourceI, destinationI, stepI,
                description, calls, cylinderSummaries, a, table,
                order, group, groupBefore, eqCount, applied>>

\* Mutant of Check: the message is printed, but main goes on without os.Exit
CheckWithoutExit(at, rejected, message, code, then) ==
    /\ pc = at
    /\ pc' = then
    /\ printed' = IF rejected THEN Append(printed, message) ELSE printed
    /\ UNCHANGED exitCode
    /\ ValidationUnchanged

\* One if statement of the validation: println and os.Exit, or on to the next
Check(at, rejected, message, code, then) ==
    /\ pc = at
    /\ IF rejected
       THEN /\ printed' = Append(printed, message)
            /\ exitCode' = <<code>>
            /\ pc' = "exit"
       ELSE /\ pc' = then
            /\ UNCHANGED <<printed, exitCode>>
    /\ ValidationUnchanged

CheckTemperature ==
    /\ Check("temperature", TemperatureRejected(args),
             "Invalid temperature. Must be >-30 and <80", 1, "gasSum")
    /\ UNCHANGED gasComposition

\* The gas sum's check and, when it passes, the gas composition
CheckGasSum ==
    /\ Check("gasSum", GasSumRejected(args),
             "Defined gases must not exceed 100% (1.0)", 11, "destinationPressure")
    /\ gasComposition' =
          IF GasSumRejected(args) THEN gasComposition
          ELSE GasCompositionFromFlags(args.helium, args.oxygen, args.neon,
                                       args.argon, args.hydrogen)

CheckDestinationPressure ==
    /\ Check("destinationPressure", DestinationPressureRejected(args),
             "Invalid destination cylinder pressure; must be >= 0 and <=350", 1,
             "sourcePressure")
    /\ UNCHANGED gasComposition

CheckSourcePressure ==
    /\ Check("sourcePressure", SourcePressureRejected(args),
             "Invalid source cylinder pressure; must be > 0 and <=350", 1, "pressureOrder")
    /\ UNCHANGED gasComposition

CheckPressureOrder ==
    /\ Check("pressureOrder", PressureOrderRejected(args),
             "Source pressure must be higher than destination pressure", 1,
             "destinationVolume")
    /\ UNCHANGED gasComposition

CheckDestinationVolume ==
    /\ Check("destinationVolume", DestinationVolumeRejected(args),
             "Destination cylinder volume size must be greater than 0 and less than 1000", 1,
             "sourceVolume")
    /\ UNCHANGED gasComposition

CheckSourceVolume ==
    /\ Check("sourceVolume", SourceVolumeRejected(args),
             "Source cylinder volume size must be greater than 0 and less than 1000", 1,
             "configure")
    /\ UNCHANGED gasComposition

\* After the validation: temperature, gasSystem, cylinderConfiguration and the
\* four summary slots
Configure ==
    /\ pc = "configure"
    /\ temperature' = Add(args.temperature, KelvinOffset)
    /\ gasSystem' = IF args.useIdealGas THEN IdealGas ELSE VanDerWaals
    /\ cylinderConfiguration' =
          CylinderConfiguration(flags.destination, args.destinationCylinderPressure,
                                args.destinationCylinderVolume, flags.source,
                                args.sourceCylinderPressure, args.sourceCylinderVolume)
    /\ cylinderSummaries' = [k \in 1..4 |-> EmptySummary]
    /\ a' = 0
    /\ pc' = "main"
    /\ UNCHANGED <<block, flags, args, gasComposition, sourceCylinders,
                   destinationCylinders, sourceI, destinationI, stepI, description,
                   calls, table, order, group, groupBefore, eqCount, printed, exitCode, applied>>

NextMain ==
    \/ CheckTemperature
    \/ CheckGasSum
    \/ CheckDestinationPressure
    \/ CheckSourcePressure
    \/ CheckPressureOrder
    \/ CheckDestinationVolume
    \/ CheckSourceVolume
    \/ Configure
    \/ MainCall
    \/ MainSkip
    \/ LoopStep
    \/ FinalEqualize
    \/ PrintSummaries

SpecMain == InitMain /\ [][NextMain]_vars

-----------------------------------------------------------------------------
(* The equation of state and PressureFromVolumes on their own              *)

\* The arguments the functions are applied to
EosVolumes == {Num(1), Frac(17, 2), Num(12), Num(VolumeLimit)}

EosPressures ==
    {Num(p) : p \in Around(0) \cup {ExampleDestinationPressure, ExampleSourcePressure,
                                    PressureLimit}}

EosTemperatures ==
    {Add(Num(t), KelvinOffset) : t \in {LowTemperature, DefaultCelsius, HighTemperature}}

GasVolumes ==
    {Num(k) : k \in 0..(MaxVolume * MaxPressure)} \cup {Num(12), Num(2000), Frac(5, 2)}

TotalVolumes == {Num(v) : v \in 1..MaxVolume} \cup {Num(12), Frac(17, 2)}

InitFunctions ==
    /\ pc = "functions"
    /\ block = 0
    /\ flags = [source |-> FALSE, destination |-> FALSE]
    /\ gasSystem = VanDerWaals
    /\ gasComposition = DefaultComposition
    /\ temperature = DefaultTemperature
    /\ cylinderConfiguration =
          CylinderConfiguration(FALSE, Num(0), Num(1), FALSE, Num(1), Num(1))
    /\ sourceCylinders = <<>>
    /\ destinationCylinders = <<>>
    /\ sourceI = 0
    /\ destinationI = 0
    /\ stepI = 0
    /\ description = ""
    /\ calls = <<>>
    /\ cylinderSummaries = [k \in 1..4 |-> EmptySummary]
    /\ a = 0
    /\ table = <<>>
    /\ Idle
    /\ PastValidation

FunctionsUnchanged ==
    UNCHANGED <<pc, block, flags, gasSystem, gasComposition, temperature,
                cylinderConfiguration, sourceCylinders, destinationCylinders,
                sourceI, destinationI, stepI, description, calls, cylinderSummaries,
                a, table, order, group, groupBefore, eqCount, args, printed, exitCode>>

\* GasToMoles is called on one gas's constants
CallGasToMoles ==
    /\ pc = "functions"
    /\ applied = <<>>
    /\ \E gas \in DOMAIN VanDerWaalsConstants, V \in EosVolumes, P \in EosPressures,
          T \in EosTemperatures :
          applied' = <<[function |-> "GasToMoles", gas |-> gas, V |-> V, P |-> P, T |-> T,
                        result |-> GasToMoles(V, P, VanDerWaalsConstants[gas], T)]>>
    /\ FunctionsUnchanged

\* MolesToPressure is called on the moles GasToMoles returned
CallMolesToPressure ==
    /\ pc = "functions"
    /\ Len(applied) = 1
    /\ applied[1].function = "GasToMoles"
    /\ applied' =
          Append(applied,
                 [function |-> "MolesToPressure", gas |-> applied[1].gas, V |-> applied[1].V,
                  n |-> applied[1].result, T |-> applied[1].T,
                  result |-> MolesToPressure(applied[1].V, applied[1].result, applied[1].T,
                                             VanDerWaalsConstants[applied[1].gas])])
    /\ FunctionsUnchanged

CallPressureFromVolumes ==
    /\ pc = "functions"
    /\ applied = <<>>
    /\ \E gasVolume \in GasVolumes, totalVolume \in TotalVolumes :
          applied' = <<[function |-> "PressureFromVolumes", gasVolume |-> gasVolume,
                        totalVolume |-> totalVolume,
                        result |-> PressureFromVolumes(gasVolume, totalVolume)]>>
    /\ FunctionsUnchanged

\* The pressures and multipliers PartialPressure is applied to
PartialPressureInputs ==
    {Num(p) : p \in 0..MaxPressure} \cup {Frac(500, 3), Num(ExampleSourcePressure)}

Multipliers == {Zero, Frac(21, 100), Frac(1, 2), Frac(79, 100), Num(1)}

CallPartialPressure ==
    /\ pc = "functions"
    /\ applied = <<>>
    /\ \E p \in PartialPressureInputs, pp \in Multipliers :
          applied' = <<[function |-> "PartialPressure", p |-> p, pp |-> pp,
                        result |-> PartialPressure(p, pp)]>>
    /\ FunctionsUnchanged

\* The mole counts GasWeightFromMole is applied to
MoleCounts == {Num(k) : k \in 0..MaxVolume} \cup {Frac(65, 2), Frac(1, 4)}

CallGasWeightFromMole ==
    /\ pc = "functions"
    /\ applied = <<>>
    /\ \E moleCount \in MoleCounts, gas \in DOMAIN AtomicWeightLookup :
          applied' = <<[function |-> "GasWeightFromMole", moleCount |-> moleCount,
                        gas |-> gas, atomicWeight |-> AtomicWeightLookup[gas],
                        result |-> GasWeightFromMole(moleCount, AtomicWeightLookup[gas])]>>
    /\ FunctionsUnchanged

NextFunctions ==
    \/ CallGasToMoles
    \/ CallMolesToPressure
    \/ CallPressureFromVolumes
    \/ CallPartialPressure
    \/ CallGasWeightFromMole

SpecFunctions == InitFunctions /\ [][NextFunctions]_vars

-----------------------------------------------------------------------------
(* Properties                                                              *)

Uniform(cl) == \A i, j \in DOMAIN cl : cl[i].Pressure = cl[j].Pressure

DistinctVolumes(cl) == \E i, j \in DOMAIN cl : cl[i].CylinderVolume # cl[j].CylinderVolume

\* C1: in ideal-gas mode Equalize leaves the group's total ideal gas volume
\* (the sum of CylinderVolume x Pressure) as it was before the call.
C1_IdealGasVolumeConserved ==
    (pc = "equalize" /\ eqCount > 0 /\ gasSystem = IdealGas) =>
        TotalGasVolume(group, IdealGas, gasComposition, temperature)
            = TotalGasVolume(groupBefore, IdealGas, gasComposition, temperature)

\* C1's case: Equalize has moved gas between cylinders of different volumes
C1_Witness ==
    /\ pc = "equalize" /\ eqCount = 1 /\ gasSystem = IdealGas
    /\ Len(group) = 3
    /\ ~Uniform(groupBefore)
    /\ DistinctVolumes(group)

FAbs(x) == IF x.m < 0 THEN FNeg(x) ELSE x

\* |x - y| <= tol * |y|, false when either is not a number
WithinRelative(x, y, tol) ==
    LET diff == FAbs(FSub(AsFlt(x), AsFlt(y)))
    IN  diff # FNaN /\ ~Less(Mul(tol, FAbs(AsFlt(y))), diff)

RelativeTolerance == Frac(1, 10 ^ 9)

\* C2: in Van der Waals mode Equalize leaves the group's total moles (the sum
\* of Cylinder.Moles over the group) as they were before the call, within a
\* relative tolerance of 1e-9.
C2_MolesConserved ==
    (pc = "equalize" /\ eqCount > 0 /\ gasSystem = VanDerWaals) =>
        WithinRelative(TotalMoles(group, temperature, gasComposition),
                       TotalMoles(groupBefore, temperature, gasComposition),
                       RelativeTolerance)

\* C3: after Equalize every cylinder of the group holds the same Pressure, in
\* ideal-gas and in Van der Waals mode.
C3_UniformPressure ==
    (pc = "equalize" /\ eqCount > 0) => Uniform(group)

\* C3's case: a Van der Waals group of two cylinders of different volumes
\* whose pressures differed
C3_Witness ==
    /\ pc = "equalize" /\ eqCount = 1 /\ gasSystem = VanDerWaals
    /\ Len(group) >= 2
    /\ DistinctVolumes(group)
    /\ ~Uniform(groupBefore)
    /\ Uniform(group)

\* C5: in ideal-gas mode Equalize on a group whose cylinders already hold one
\* common pressure leaves every cylinder's Pressure unchanged.
C5_Idempotent ==
    (pc = "equalize" /\ eqCount > 0 /\ gasSystem = IdealGas /\ Uniform(groupBefore)) =>
        \A i \in DOMAIN group : group[i].Pressure = groupBefore[i].Pressure

\* C5's case: the second Equalize on a group the first one has changed
C5_Witness ==
    /\ pc = "equalize" /\ eqCount = 2 /\ gasSystem = IdealGas
    /\ Len(group) >= 2
    /\ DistinctVolumes(group)
    /\ Uniform(groupBefore)
    /\ groupBefore[1].Pressure.d > 1
    /\ group = groupBefore

\* The summary of the configuration with the pairs taken in the code's order
CodeOrderSummary ==
    equalizeAndReport(cylinderConfiguration,
                      CodeOrder(Len(sourceCylinders), Len(destinationCylinders)),
                      gasSystem, gasComposition, temperature)

\* The first and the last pair of the order have no cylinder in common
DisjointEnds(pairs) ==
    /\ pairs[1][1] # pairs[Len(pairs)][1]
    /\ pairs[1][2] # pairs[Len(pairs)][2]

\* C4 as stated: whatever the order of the pairwise steps, the final summary
\* is that of the source-major, destination-minor order.
C4_PathIndependent ==
    pc = "done" => cylinderSummaries[1] = CodeOrderSummary

\* C4 as amended: the final summary is that of the code's order when at most
\* one side is a twinset, and with two twinsets for the orders whose first and
\* last pair share no cylinder.
C4_PathIndependentDisjointEnds ==
    (pc = "done" /\ (Len(order) < 4 \/ DisjointEnds(order))) =>
        cylinderSummaries[1] = CodeOrderSummary

\* C4's case: two twinsets, pressures that differ, an order other than the code's
C4_Witness ==
    /\ pc = "done"
    /\ Len(order) = 4
    /\ DisjointEnds(order)
    /\ order[1] # <<1, 1>>
    /\ order # CodeOrder(2, 2)
    /\ cylinderConfiguration.SourceCylinderPressure
          # cylinderConfiguration.DestinationCylinderPressure
    /\ cylinderSummaries[1].SourceCylinderPressure
          # cylinderSummaries[1].DestinationCylinderPressure

\* The Equalize calls of one scenario run, as C6 states them
ExpectedCalls(ns, nd) ==
    [k \in 1..(ns * nd) |->
        <<<<"destination", ((k - 1) % nd) + 1>>, <<"source", ((k - 1) \div nd) + 1>>>>]
    \o <<[k \in 1..nd |-> <<"destination", k>>]>>

\* C6: one scenario run makes len(source) x len(destination) pairwise Equalize
\* calls, each on one source and one destination cylinder, in source-major
\* destination-minor order, then one Equalize on the destination group, and
\* no other.
C6_CallSequence ==
    LET ns == Len(sourceCylinders)
        nd == Len(destinationCylinders)
        expected == ExpectedCalls(ns, nd)
    IN  /\ pc \in {"loop", "final"} =>
            /\ Len(calls) = stepI
            /\ Len(calls) <= ns * nd
            /\ calls = SubSeq(expected, 1, Len(calls))
            /\ pc = "final" => Len(calls) = ns * nd
        /\ (pc \in {"main", "done"} /\ a > 0) => calls = expected

\* C6's case: a run of two twinsets has returned
C6_Witness ==
    /\ pc = "main" /\ a = 1
    /\ Len(sourceCylinders) = 2 /\ Len(destinationCylinders) = 2
    /\ Len(calls) = 5

\* C7: in ideal-gas mode with both manifolds open the summary reports the same
\* end pressure for both sides, (Vs*Ps + Vd*Pd) / (Vs + Vd).
C7_AllOpenPressure ==
    \A k \in 1..a :
        (gasSystem = IdealGas /\ cylinderSummaries[k].Description = "all manifolds open") =>
            LET c == cylinderConfiguration
                p == Div(Add(Mul(c.SourceCylinderVolume, c.SourceCylinderPressure),
                             Mul(c.DestinationCylinderVolume, c.DestinationCylinderPressure)),
                         Add(c.SourceCylinderVolume, c.DestinationCylinderVolume))
            IN  /\ cylinderSummaries[k].SourceCylinderPressure = p
                /\ cylinderSummaries[k].DestinationCylinderPressure = p

\* C7's case: an all-open run of unequal volumes and pressures has returned
C7_Witness ==
    \E k \in 1..a :
        /\ cylinderSummaries[k].Description = "all manifolds open"
        /\ cylinderConfiguration.SourceCylinderVolume
              # cylinderConfiguration.DestinationCylinderVolume
        /\ cylinderConfiguration.SourceCylinderPressure
              # cylinderConfiguration.DestinationCylinderPressure
        /\ cylinderSummaries[k].SourceCylinderPressure.n > 0

ExampleRun ==
    /\ pc = "done"
    /\ gasSystem = IdealGas
    /\ IsExample(cylinderConfiguration)
    /\ flags.source /\ flags.destination

\* C8: the worked example (24 l at 210 bar into 17 l at 80 bar, both twinsets,
\* ideal gas) prints, rounded: both closed 3432 l / 143 bar and 2968 l / 175 bar;
\* destination closed 3621 / 151 and 2779 / 163; source closed 3589 / 150 and
\* 2811 / 165; all open 3746 / 156 and 2654 / 156.
C8_WorkedExample ==
    ExampleRun =>
        [k \in DOMAIN table |-> SubSeq(table[k], 1, 5)] =
                << <<"both manifolds closed", 143, 3432, 175, 2968>>,
                   <<"destination manifold closed", 151, 3621, 163, 2779>>,
                   <<"source manifold closed", 150, 3589, 165, 2811>>,
                   <<"all manifolds open", 156, 3746, 156, 2654>> >>

\* C8's case: the worked example has run to its table
C8_Witness == ExampleRun /\ Len(table) = 4

\* C9: the scenario label follows from the two twinset flags alone.
C9_Label ==
    pc \in {"loop", "final"} =>
        LET s == cylinderConfiguration.SourceCylinderIsTwinset
            d == cylinderConfiguration.DestinationCylinderIsTwinset
        IN  /\ (s /\ d) => description = "both manifolds closed"
            /\ (s /\ ~d) => description = "source manifold closed"
            /\ (~s /\ d) => description = "destination manifold closed"
            /\ (~s /\ ~d) => description = "all manifolds open"

\* C9's case: a run with only the source a twinset
C9_Witness ==
    /\ pc = "loop"
    /\ cylinderConfiguration.SourceCylinderIsTwinset
    /\ ~cylinderConfiguration.DestinationCylinderIsTwinset
    /\ description = "source manifold closed"

\* What C10 states of one side's list
SideAsConfigured(cl, twinset, volume, pressure, fresh) ==
    /\ Len(cl) = IF twinset THEN 2 ELSE 1
    /\ \A i \in DOMAIN cl :
        /\ cl[i].CylinderVolume = IF twinset THEN Div(volume, Num(2)) ELSE volume
        /\ fresh => cl[i].Pressure = pressure
    /\ TotalVolume(cl) = volume

\* C10: initializeCylinders builds for each side 2 cylinders of half the
\* configured volume when the side is a twinset and 1 cylinder of the full
\* volume otherwise, each at the side's configured pressure, so that each
\* list's TotalVolume is the side's configured volume.
C10_InitializeCylinders ==
    pc \in {"loop", "final"} =>
        LET c == cylinderConfiguration
        IN  /\ SideAsConfigured(sourceCylinders, c.SourceCylinderIsTwinset,
                                c.SourceCylinderVolume, c.SourceCylinderPressure, stepI = 0)
            /\ SideAsConfigured(destinationCylinders, c.DestinationCylinderIsTwinset,
                                c.DestinationCylinderVolume, c.DestinationCylinderPressure,
                                stepI = 0)

\* C10's case: the lists of a twinset source and a single destination, just built
C10_Witness ==
    /\ pc = "loop" /\ stepI = 0
    /\ cylinderConfiguration.SourceCylinderIsTwinset
    /\ ~cylinderConfiguration.DestinationCylinderIsTwinset
    /\ Len(sourceCylinders) = 2 /\ Len(destinationCylinders) = 1
    /\ sourceCylinders[1].CylinderVolume.d = 2

\* The labels of the scenarios main has run so far, in the order of the calls;
\* a label stands for one pair of effective twinset settings (Description
\* gives the four pairs four different labels)
RunLabels == [k \in 1..a |-> cylinderSummaries[k].Description]

NoTwice(labels) ==
    \A j, k \in DOMAIN labels : j # k => labels[j] # labels[k]

\* C11: within one run, for every combination of the two twinset flags, no
\* manifold configuration is passed to equalizeAndReport more than once and
\* no row label appears twice in the comparison table.
C11_OncePerConfiguration ==
    /\ NoTwice(RunLabels)
    /\ NoTwice([k \in DOMAIN table |-> table[k][1]])

\* What main does instead: with both flags or neither every configuration is
\* run once; with exactly one flag "all manifolds open" is run twice, by the
\* flag's own block and by the last block
C11_CodeBehaviour ==
    pc = "done" =>
        LET labels == [k \in DOMAIN table |-> table[k][1]]
        IN  /\ labels = RunLabels
            /\ (flags.source /\ flags.destination) =>
                  labels = <<"both manifolds closed", "destination manifold closed",
                             "source manifold closed", "all manifolds open">>
            /\ (flags.source /\ ~flags.destination) =>
                  labels = <<"source manifold closed", "all manifolds open",
                             "all manifolds open">>
            /\ (~flags.source /\ flags.destination) =>
                  labels = <<"destination manifold closed", "all manifolds open",
                             "all manifolds open">>
            /\ (~flags.source /\ ~flags.destination) => labels = <<"all manifolds open">>

\* main exited on the message msg with the code c, as its first and only exit
ExitedWith(msg, c) == pc = "exit" /\ printed = <<msg>> /\ exitCode = <<c>>

TemperatureExit == ExitedWith("Invalid temperature. Must be >-30 and <80", 1)

\* C12: a temperature is accepted exactly when it lies in the open interval
\* (-30, 80); -30 and 80 themselves are rejected with the invalid-temperature
\* error, before any scenario runs.
C12_TemperatureOpenInterval ==
    pc # "temperature" =>
        (TemperatureExit <=>
            ~(Less(Num(LowTemperature), args.temperature)
              /\ Less(args.temperature, Num(HighTemperature))))

\* What main does instead: it accepts the closed interval [-30, 80]
C12_CodeBehaviour ==
    pc # "temperature" =>
        /\ TemperatureExit <=>
              (Less(args.temperature, Num(LowTemperature))
               \/ Less(Num(HighTemperature), args.temperature))
        /\ TemperatureExit => a = 0 /\ calls = <<>> /\ table = <<>>


\* main is past its validation: every check passed
Validated == pc \in {"configure", "main", "loop", "final", "done"}

InUnitInterval(x) == ~Less(x, Zero) /\ ~Less(Num(1), x)

\* C13: every gas composition that passes validation maps each of the six
\* gases to a fraction in [0, 1], whatever the five fraction flags are,
\* negative values included.
C13_FractionsInUnitInterval ==
    Validated =>
        \A gas \in DOMAIN gasComposition : InUnitInterval(gasComposition[gas])

\* What main guarantees instead: the six fractions are the five flags as given
\* and a nitrogen fraction that is not negative
C13_CodeBehaviour ==
    Validated =>
        /\ DOMAIN gasComposition =
              {"Argon", "Helium", "Hydrogen", "Neon", "Nitrogen", "Oxygen"}
        /\ gasComposition.Helium = args.helium
        /\ gasComposition.Oxygen = args.oxygen
        /\ gasComposition.Neon = args.neon
        /\ gasComposition.Argon = args.argon
        /\ gasComposition.Hydrogen = args.hydrogen
        /\ ~Less(gasComposition.Nitrogen, Zero)


GasSumExit == ExitedWith("Defined gases must not exceed 100% (1.0)", 11)

\* The sum of the six fractions of a composition
FractionSum(gc) ==
    Add(Add(Add(Add(Add(gc.Argon, gc.Helium), gc.Hydrogen), gc.Neon), gc.Nitrogen), gc.Oxygen)

\* C14: the construction of the gas composition fails (the run is aborted)
\* exactly when the sum of the five given fractions exceeds 1.0; otherwise
\* nitrogen is 1 minus that sum and the six fractions sum to exactly 1.
C14_GasSum ==
    (pc \notin {"temperature", "gasSum"} /\ ~TemperatureExit) =>
        /\ GasSumExit <=> Less(Num(1), gasSum(args))
        /\ ~GasSumExit =>
              /\ gasComposition.Nitrogen = Sub(Num(1), gasSum(args))
              /\ FractionSum(gasComposition) = Num(1)

\* C14's case: the five fractions sum to exactly 1.0 and the composition is
\* built, with no nitrogen
C14_Witness ==
    /\ pc = "destinationPressure"
    /\ gasSum(args) = Num(1)
    /\ args.helium = Frac(1, 2)
    /\ gasComposition.Nitrogen = Zero
    /\ printed = <<>>


DestinationPressureExit ==
    ExitedWith("Invalid destination cylinder pressure; must be >= 0 and <=350", 1)

SourcePressureExit ==
    ExitedWith("Invalid source cylinder pressure; must be > 0 and <=350", 1)

PressureOrderExit ==
    ExitedWith("Source pressure must be higher than destination pressure", 1)

\* The run got as far as the pressure checks and is past them
PastPressureChecks ==
    /\ pc \notin {"temperature", "gasSum", "destinationPressure", "sourcePressure",
                  "pressureOrder"}
    /\ ~TemperatureExit
    /\ ~GasSumExit

\* C15: the run is rejected on its pressures exactly when the source pressure
\* is outside (0, 350], or the destination pressure is outside [0, 350], or
\* the source pressure is below the destination pressure; equal pressures, a
\* destination pressure of 0 and pressures of exactly 350 are accepted.
C15_PressureValidation ==
    PastPressureChecks =>
        LET sP == args.sourceCylinderPressure
            dP == args.destinationCylinderPressure
        IN  (DestinationPressureExit \/ SourcePressureExit \/ PressureOrderExit)
            <=> \/ ~(Less(Zero, sP) /\ ~Less(Num(PressureLimit), sP))
                \/ ~(~Less(dP, Zero) /\ ~Less(Num(PressureLimit), dP))
                \/ Less(sP, dP)

\* C15's case: source and destination both at exactly 350 bar pass the three
\* pressure checks
C15_Witness ==
    /\ pc = "destinationVolume"
    /\ args.sourceCylinderPressure = Num(PressureLimit)
    /\ args.destinationCylinderPressure = Num(PressureLimit)
    /\ printed = <<>>

\* A destination at 0 bar passes them too
C15_WitnessZeroDestination ==
    /\ pc = "destinationVolume"
    /\ args.destinationCylinderPressure = Zero
    /\ printed = <<>>

DestinationVolumeExit ==
    ExitedWith("Destination cylinder volume size must be greater than 0 and less than 1000", 1)

SourceVolumeExit ==
    ExitedWith("Source cylinder volume size must be greater than 0 and less than 1000", 1)

\* The run got as far as the volume checks and is past them
PastVolumeChecks ==
    /\ PastPressureChecks
    /\ pc \notin {"destinationVolume", "sourceVolume"}
    /\ ~(DestinationPressureExit \/ SourcePressureExit \/ PressureOrderExit)

OutsideVolumeRange(v) == ~(Less(Zero, v) /\ ~Less(Num(VolumeLimit), v))

\* C16: the run is rejected on its volumes exactly when the source or the
\* destination cylinder volume is outside (0, 1000] liters; a volume of
\* exactly 1000 is accepted and a volume of 0 is rejected.
C16_VolumeValidation ==
    PastVolumeChecks =>
        ((DestinationVolumeExit \/ SourceVolumeExit)
            <=> \/ OutsideVolumeRange(args.sourceCylinderVolume)
                \/ OutsideVolumeRange(args.destinationCylinderVolume))

\* C16's case: both volumes at exactly 1000 l pass the two volume checks
C16_Witness ==
    /\ pc = "configure"
    /\ args.sourceCylinderVolume = Num(VolumeLimit)
    /\ args.destinationCylinderVolume = Num(VolumeLimit)
    /\ printed = <<>>

\* A source volume of 0 is rejected after the destination volume passed
C16_WitnessZeroVolume ==
    /\ SourceVolumeExit
    /\ args.sourceCylinderVolume = Zero


\* One of main's checks rejects the flags
Rejected(g) ==
    \/ TemperatureRejected(g)
    \/ GasSumRejected(g)
    \/ DestinationPressureRejected(g)
    \/ SourcePressureRejected(g)
    \/ PressureOrderRejected(g)
    \/ DestinationVolumeRejected(g)
    \/ SourceVolumeRejected(g)

\* No scenario was started, no Equalize called, no summary stored or printed
NothingRun ==
    /\ a = 0
    /\ calls = <<>>
    /\ sourceCylinders = <<>>
    /\ destinationCylinders = <<>>
    /\ cylinderSummaries = <<>>
    /\ table = <<>>

\* C17: all input validation happens before any equalization: a run whose
\* flags violate a pressure, volume, temperature or gas-sum check exits
\* without one call of equalizeAndReport or Equalize and without a summary,
\* and stays exited; a scenario only ever runs on flags that passed every check.
C17_ValidationFirst ==
    /\ [](/\ Rejected(args) => (~Validated /\ NothingRun)
          /\ pc = "exit" => (Rejected(args) /\ NothingRun /\ Len(printed) = 1)
          /\ ~NothingRun => (Validated /\ printed = <<>> /\ exitCode = <<>>))
    /\ [][pc # "exit"]_vars

\* C17's case: the last check of the validation rejects a source volume above
\* 1000 l after every other check passed, and the run has exited
C17_Witness ==
    /\ SourceVolumeExit
    /\ Less(Num(VolumeLimit), args.sourceCylinderVolume)
    /\ NothingRun


\* C18: GasToMoles returns exactly 0 moles whenever the pressure passed to it
\* is zero or negative, as in the calls for a gas of fraction 0 and for a
\* cylinder at 0 bar.
C18_NoMolesWithoutPressure ==
    \A k \in DOMAIN applied :
        (applied[k].function = "GasToMoles" /\ ~Less(Zero, applied[k].P)) =>
            applied[k].result = FZero

\* What GasToMoles returns instead: at 0 bar a positive number of moles, at a
\* negative pressure a negative one
C18_CodeBehaviour ==
    \A k \in DOMAIN applied :
        applied[k].function = "GasToMoles" =>
            /\ applied[k].P = Zero => Less(FZero, applied[k].result)
            /\ Less(applied[k].P, Zero) => Less(applied[k].result, FZero)


\* The round trips made: MolesToPressure applied to what GasToMoles returned
\* for a pressure above 0
RoundTrip ==
    /\ Len(applied) = 2
    /\ applied[2].function = "MolesToPressure"
    /\ Less(Zero, applied[1].P)

\* C19: for every gas, volume, pressure 0 < P <= 350 bar and temperature of
\* the supported range, MolesToPressure(V, GasToMoles(V, P, constants, T), T,
\* constants) equals P within tolerance (1e-9 relative, the tolerance of the
\* program's tests).
C19_RoundTrip ==
    RoundTrip => WithinRelative(applied[2].result, applied[1].P, RelativeTolerance)

\* What the two functions do instead: the pressure that comes back is a
\* number, and it is off by more than 1e-6 and by less than 1/10 of P
C19_CodeBehaviour ==
    RoundTrip =>
        /\ ~WithinRelative(applied[2].result, applied[1].P, Frac(1, 10 ^ 6))
        /\ WithinRelative(applied[2].result, applied[1].P, Frac(1, 10))


\* The calls of PressureFromVolumes made
PressureFromVolumesCalls ==
    {k \in DOMAIN applied : applied[k].function = "PressureFromVolumes"}

\* C20: PressureFromVolumes(gasVolume, totalVolume) is gasVolume divided by
\* totalVolume for every gas volume and every positive cylinder volume: 12 l
\* of gas in 12 l gives exactly 1, 2000 l in 12 l gives 166 + 2/3 bar.
C20_PressureFromVolumes ==
    \A k \in PressureFromVolumesCalls :
        /\ Mul(applied[k].result, applied[k].totalVolume) = applied[k].gasVolume
        /\ (applied[k].gasVolume = Num(12) /\ applied[k].totalVolume = Num(12)) =>
              applied[k].result = Num(1)
        /\ (applied[k].gasVolume = Num(2000) /\ applied[k].totalVolume = Num(12)) =>
              applied[k].result = [i |-> 166, n |-> 2, d |-> 3]

\* C20's case: 2000 l of gas in a 12 l cylinder
C20_Witness ==
    \E k \in PressureFromVolumesCalls :
        /\ applied[k].gasVolume = Num(2000)
        /\ applied[k].totalVolume = Num(12)
        /\ applied[k].result.i = 166


\* The calls made of the function named fn
CallsOf(fn) == {k \in DOMAIN applied : applied[k].function = fn}

\* C21: PressureBar.PartialPressure(f) is the pressure multiplied by the
\* fraction f, for every pressure and fraction; 166 + 2/3 bar with the
\* fraction 0.21 gives 35 bar.
C21_PartialPressure ==
    \A k \in CallsOf("PartialPressure") :
        /\ applied[k].pp = Zero => applied[k].result = Zero
        /\ applied[k].pp # Zero => Div(applied[k].result, applied[k].pp) = applied[k].p
        /\ (applied[k].p = Frac(500, 3) /\ applied[k].pp = Frac(21, 100)) =>
              applied[k].result = Num(35)

\* C21's case: 166 + 2/3 bar at the fraction 0.21
C21_Witness ==
    \E k \in CallsOf("PartialPressure") :
        /\ applied[k].p = [i |-> 166, n |-> 2, d |-> 3]
        /\ applied[k].pp = Frac(21, 100)
        /\ applied[k].result.i = 35

\* C22: GasWeightFromMole(moleCount, atomicWeight) is moleCount multiplied by
\* atomicWeight for every input; 32.5 moles at the weight AtomicWeightLookup
\* holds for Argon, 14.0067, weigh 455.21775 g.
C22_GasWeightFromMole ==
    \A k \in CallsOf("GasWeightFromMole") :
        /\ Div(applied[k].result, applied[k].atomicWeight) = applied[k].moleCount
        /\ applied[k].gas = "Argon" => applied[k].atomicWeight = Frac(140067, 10000)
        /\ (applied[k].gas = "Argon" /\ applied[k].moleCount = Frac(65, 2)) =>
              applied[k].result = Frac(45521775, 100000)

\* C22's case: 32.5 moles of Argon
C22_Witness ==
    \E k \in CallsOf("GasWeightFromMole") :
        /\ applied[k].gas = "Argon"
        /\ applied[k].moleCount = Frac(65, 2)
        /\ applied[k].result.i = 455


\* The cylinders of list after have the volumes and descriptions of before
SameCylinders(before, after) ==
    /\ Len(after) = Len(before)
    /\ \A i \in DOMAIN before :
          /\ after[i].CylinderVolume = before[i].CylinderVolume
          /\ after[i].Description = before[i].Description

\* The cylinders of list after other than the i-th are as they were in before
OthersUntouched(before, after, i) ==
    \A k \in DOMAIN before : k # i => after[k] = before[k]

\* C23: throughout a scenario run Equalize changes only the Pressure of the
\* cylinders of the group it is given: every cylinder keeps the CylinderVolume
\* and Description it was constructed with, and a cylinder outside the group
\* keeps its pressure over the call.
C23_Frame ==
    /\ [](pc \in {"loop", "final"} =>
            /\ SameCylinders(initializeCylinders(cylinderConfiguration).source,
                             sourceCylinders)
            /\ SameCylinders(initializeCylinders(cylinderConfiguration).destination,
                             destinationCylinders))
    /\ [][/\ pc = "loop" =>
                /\ SameCylinders(sourceCylinders, sourceCylinders')
                /\ SameCylinders(destinationCylinders, destinationCylinders')
                /\ OthersUntouched(sourceCylinders, sourceCylinders', sourceI)
                /\ OthersUntouched(destinationCylinders, destinationCylinders', destinationI)
          /\ pc = "final" =>
                /\ sourceCylinders' = sourceCylinders
                /\ SameCylinders(destinationCylinders, destinationCylinders')]_vars

\* C23's case: the first pairwise step of two twinsets has changed the
\* pressures of its pair and of no other cylinder
C23_Witness ==
    /\ pc = "loop" /\ stepI = 1
    /\ Len(sourceCylinders) = 2 /\ Len(destinationCylinders) = 2
    /\ sourceCylinders[1].Pressure # cylinderConfiguration.SourceCylinderPressure
    /\ sourceCylinders[2].Pressure = cylinderConfiguration.SourceCylinderPressure
    /\ destinationCylinders[1].Pressure # cylinderConfiguration.DestinationCylinderPressure
    /\ destinationCylinders[2].Pressure = cylinderConfiguration.DestinationCylinderPressure
    /\ sourceCylinders[1].CylinderVolume # destinationCylinders[1].CylinderVolume


\* Vs*Ps + Vd*Pd of configuration c
InitialGasVolume(c) ==
    Add(Mul(c.SourceCylinderVolume, c.SourceCylinderPressure),
        Mul(c.DestinationCylinderVolume, c.DestinationCylinderPressure))

\* C24: in ideal-gas mode the gas of a whole scenario is conserved: after
\* every pairwise step and after the final destination-group step the source
\* and destination TotalGasVolume add up to Vs*Ps + Vd*Pd, and so do the two
\* gas volumes of every returned summary (3432 + 2968 = 6400 = 24*210 + 17*80
\* in the example).
C24_ScenarioConserved ==
    gasSystem = IdealGas =>
        /\ pc \in {"loop", "final"} =>
              Add(TotalGasVolume(sourceCylinders, gasSystem, gasComposition, temperature),
                  TotalGasVolume(destinationCylinders, gasSystem, gasComposition, temperature))
                = InitialGasVolume(cylinderConfiguration)
        /\ \A k \in 1..a :
              Add(cylinderSummaries[k].SourceCylinderGasVolume,
                  cylinderSummaries[k].DestinationCylinderGasVolume)
                = InitialGasVolume(cylinderConfiguration)
        /\ ExampleRun =>
              /\ InitialGasVolume(cylinderConfiguration) = Num(6400)
              /\ table[1][3] + table[1][5] = 6400

\* C24's case: a run of two twinsets of different volumes and pressures has
\* returned a summary in which gas has moved
C24_Witness ==
    /\ gasSystem = IdealGas
    /\ pc = "main" /\ a = 1
    /\ cylinderSummaries[1].Description = "both manifolds closed"
    /\ cylinderConfiguration.SourceCylinderVolume
          # cylinderConfiguration.DestinationCylinderVolume
    /\ Less(Mul(cylinderConfiguration.DestinationCylinderVolume,
                cylinderConfiguration.DestinationCylinderPressure),
            cylinderSummaries[1].DestinationCylinderGasVolume)


\* The runs so far whose label is label
RunsLabelled(label) == {k \in 1..a : cylinderSummaries[k].Description = label}

\* Every run labelled higher ended with at least the destination pressure of
\* every run labelled lower
DestinationAtLeast(higher, lower) ==
    \A j \in RunsLabelled(higher), k \in RunsLabelled(lower) :
        ~Less(cylinderSummaries[j].DestinationCylinderPressure,
              cylinderSummaries[k].DestinationCylinderPressure)

\* C25: in ideal-gas mode, for every valid configuration, the destination end
\* pressures are ordered: both manifolds closed >= source manifold closed >=
\* all manifolds open, and both manifolds closed >= destination manifold
\* closed >= all manifolds open.
C25_ClosedNotWorse ==
    gasSystem = IdealGas =>
        /\ DestinationAtLeast("both manifolds closed", "source manifold closed")
        /\ DestinationAtLeast("source manifold closed", "all manifolds open")
        /\ DestinationAtLeast("both manifolds closed", "destination manifold closed")
        /\ DestinationAtLeast("destination manifold closed", "all manifolds open")

\* C25's case: all four scenarios have run and their destination pressures
\* are four different values
C25_Witness ==
    /\ gasSystem = IdealGas
    /\ pc = "done" /\ a = 4
    /\ Less(cylinderSummaries[4].DestinationCylinderPressure,
            cylinderSummaries[2].DestinationCylinderPressure)
    /\ Less(cylinderSummaries[2].DestinationCylinderPressure,
            cylinderSummaries[3].DestinationCylinderPressure)
    /\ Less(cylinderSummaries[3].DestinationCylinderPressure,
            cylinderSummaries[1].DestinationCylinderPressure)


\* The smallest destination end pressure among the first k scenarios run
RECURSIVE SmallestDestinationPressure(_)
SmallestDestinationPressure(k) ==
    IF k = 1 THEN cylinderSummaries[1].DestinationCylinderPressure
    ELSE WorseOf(SmallestDestinationPressure(k - 1),
                 cylinderSummaries[k].DestinationCylinderPressure)

\* Row k shows the improvement of its run over the pressure baseline
ImprovementShown(k, baseline) ==
    /\ table[k][6].kind = "number"
    /\ table[k][6].hundredths =
          Round(Div(Mul(Num(10000),
                        Sub(cylinderSummaries[k].DestinationCylinderPressure, baseline)),
                    baseline))

\* C26: the improvement of each printed row is relative to the smallest
\* destination end pressure among the scenarios run in this invocation, so
\* that the worst run shows 0.00 % and the baseline is never 0, for every
\* combination of the twinset flags, also when fewer than 4 summary slots are
\* filled.
C26_ImprovementOverWorstRun ==
    pc = "done" =>
        /\ Len(table) = a
        /\ ~IsZero(SmallestDestinationPressure(a))
        /\ \A k \in 1..a : ImprovementShown(k, SmallestDestinationPressure(a))
        /\ \E k \in 1..a : table[k][6] = [kind |-> "number", hundredths |-> 0]

\* What printSummaries does instead: its loop runs over all 4 slots, and an
\* unused slot's pressure of 0 becomes the baseline; with fewer than 4 runs
\* every row's improvement is a division by 0
C26_CodeBehaviour ==
    pc = "done" =>
        /\ a = 4 => C26_ImprovementOverWorstRun
        /\ a < 4 =>
              /\ IsZero(worstDestinationPressure(cylinderSummaries))
              /\ \A k \in 1..a : table[k][6] = [kind |-> "+Inf", hundredths |-> 0]

\* The README's improvement column
C26_ExampleImprovements ==
    ExampleRun =>
        [k \in DOMAIN table |-> table[k][6].hundredths] = <<1183, 471, 591, 0>>


\* x as a number of the kind of y
AsSameKind(x, y) == IF IsFlt(y) THEN AsFlt(x) ELSE x

\* The scenario that has just returned: its summary is stored and the
\* destination list is as the final Equalize left it
JustReturned == pc = "main" /\ a > 0 /\ destinationCylinders # <<>>

\* C27: the destination pressure of the scenario summary is the common
\* Pressure every destination cylinder holds after the final destination-group
\* Equalize, in ideal-gas and in Van der Waals mode.
C27_SummaryPressure ==
    JustReturned =>
        \A i \in DOMAIN destinationCylinders :
            cylinderSummaries[a].DestinationCylinderPressure
              = AsSameKind(destinationCylinders[i].Pressure,
                           cylinderSummaries[a].DestinationCylinderPressure)

\* C27 in ideal-gas mode only
C27_SummaryPressureIdealGas == gasSystem = IdealGas => C27_SummaryPressure

\* What the summary holds in Van der Waals mode: 22.4 * moles / volume, which
\* is off the cylinders' pressure by more than 1 %
C27_CodeBehaviour ==
    (JustReturned /\ gasSystem = VanDerWaals) =>
        \A i \in DOMAIN destinationCylinders :
            ~WithinRelative(cylinderSummaries[a].DestinationCylinderPressure,
                            destinationCylinders[i].Pressure, Frac(1, 100))

=============================================================================
